---- MODULE Spec2Model ----
(***************************************************************************)
(* A model of the autonomous-coding harness: main() of                     *)
(* autonomous_agent_demo.py (project identity resolution, namespacing,     *)
(* directory creation, log redirection through TeeOutput, the session call *)
(* and its interrupt / fatal-error boundary) and copy_spec_to_project() of *)
(* prompts.py (copy-if-absent provisioning).                               *)
(*                                                                         *)
(* Strings are sequences of one-character strings, so that str.replace,    *)
(* str.startswith and pathlib's parsing are computed character by          *)
(* character.  An optional value is None (the empty tuple) or Some(x)      *)
(* (the one-element tuple).                                                *)
(***************************************************************************)
EXTENDS Naturals, Sequences, FiniteSets

VARIABLES
    pc,           \* position of main(): "start", "resolve", "namespace", "mkdir", "log", "call", "session", "exited"
    env,          \* os.environ.get("CLAUDE_OAUTH_TOKEN"): None or Some(string)
    args,         \* the argparse.Namespace of this invocation
    project_dir,  \* main's local project_dir: None or Some(path)
    dirs,         \* the directories that exist (path strings)
    files,        \* the regular files that exist: path string -> content
    PROMPTS_DIR,    \* PROMPTS_DIR: template file name -> content
    lastCall,     \* what the last copy_spec_to_project call saw and did
    firstWritten, \* history: path string -> content its first materialization wrote
    term,         \* the process's terminal streams: "stdout"/"stderr" -> [buf, out]
    log_file,     \* main's open log file object: None or Some([path, buf])
    sys_stdout,   \* "raw" (the terminal stream) or "tee" (a TeeOutput over it)
    sys_stderr,   \* likewise
    teeLog,       \* history: the TeeOutput.write calls of this process, in order
    truncated,    \* history: what the last open(log_path, "w") discarded, None or Some(content)
    nwritten,     \* writes the agent runtime has made during this session call
    outcome,      \* how the session call settled: "none" while it has not
    exit,         \* how main() ended: "none", "returned", "raised"
    runs          \* invocations of main() so far

vars == <<pc, env, args, project_dir, dirs, files, PROMPTS_DIR, lastCall,
          firstWritten, term, log_file, sys_stdout, sys_stderr, teeLog, truncated,
          nwritten, outcome, exit, runs>>

(***************************************************************************)
(* Bounds of the model.                                                    *)
(***************************************************************************)
MaxPathParts == 3   \* fragments concatenated into a --project-dir / --project-name string
MaxSpecParts == 3   \* fragments concatenated into a --spec string
MaxWrites == 4      \* TeeOutput.write calls on one writer pair
MaxSessionWrites == 1 \* writes the agent runtime makes during one session call
MaxRuns == 2        \* invocations of main() on the same filesystem

None == <<>>
Some(x) == <<x>>

(***************************************************************************)
(* String literals of the program.                                         *)
(***************************************************************************)
TXT == <<".", "t", "x", "t">>
SPEC_TOKEN == <<"_", "s", "p", "e", "c">>
GENERATIONS == <<"g", "e", "n", "e", "r", "a", "t", "i", "o", "n", "s">>
GENERATIONS_SLASH == GENERATIONS \o <<"/">>
DEFAULT_SPEC == <<"a", "p", "p", "_", "s", "p", "e", "c", ".", "t", "x", "t">>
DEFAULT_LOG_FILE == <<"l", "i", "v", "e", "-", "o", "u", "t", "p", "u", "t", ".", "t", "x", "t">>
APP_SPEC_TXT == <<"a", "p", "p", "_", "s", "p", "e", "c", ".", "t", "x", "t">>
MONITORING_SPEC_TXT == <<"m", "o", "n", "i", "t", "o", "r", "i", "n", "g", "_", "d", "a", "s", "h", "b", "o", "a", "r", "d", "_", "s", "p", "e", "c", ".", "t", "x", "t">>
AGENT_CONTEXT_MD == <<"A", "G", "E", "N", "T", "_", "C", "O", "N", "T", "E", "X", "T", ".", "m", "d">>
DASHBOARD == <<"d", "a", "s", "h", "b", "o", "a", "r", "d">>
MONITOR == <<"m", "o", "n", "i", "t", "o", "r">>

(***************************************************************************)
(* str operations.                                                         *)
(***************************************************************************)
StartsWith(s, prefix) ==
    /\ Len(s) >= Len(prefix)
    /\ SubSeq(s, 1, Len(prefix)) = prefix

Drop(s, n) == SubSeq(s, n + 1, Len(s))

\* s.replace(old, ""): the non-overlapping occurrences of old, left to right.
RECURSIVE Remove(_, _)
Remove(s, old) ==
    IF s = <<>> THEN <<>>
    ELSE IF StartsWith(s, old) THEN Remove(Drop(s, Len(old)), old)
    ELSE <<Head(s)>> \o Remove(Tail(s), old)

\* old in s
RECURSIVE Contains(_, _)
Contains(s, old) ==
    IF StartsWith(s, old) THEN TRUE
    ELSE IF s = <<>> THEN FALSE
    ELSE Contains(Tail(s), old)

LowerChar(c) ==
    CASE c = "D" -> "d"
      [] c = "M" -> "m"
      [] c = "A" -> "a"
      [] OTHER -> c

Lower(s) == [i \in 1..Len(s) |-> LowerChar(s[i])]

(***************************************************************************)
(* pathlib.Path on POSIX: a root ("", "/" or "//") and the components.     *)
(***************************************************************************)
RECURSIVE SplitSlash(_)
SplitSlash(s) ==
    IF s = <<>> THEN << <<>> >>
    ELSE LET r == SplitSlash(Tail(s))
         IN  IF Head(s) = "/" THEN << <<>> >> \o r
             ELSE << <<Head(s)>> \o Head(r) >> \o Tail(r)

PathRoot(s) ==
    IF ~StartsWith(s, <<"/">>) THEN <<>>
    ELSE IF StartsWith(s, <<"/", "/">>) /\ ~StartsWith(s, <<"/", "/", "/">>)
         THEN <<"/", "/">>
    ELSE <<"/">>

IsComponent(c) == c # <<>> /\ c # <<".">>

\* Path(s)
PathOf(s) ==
    [root |-> PathRoot(s), parts |-> SelectSeq(SplitSlash(s), IsComponent)]

RECURSIVE JoinSlash(_)
JoinSlash(parts) ==
    IF parts = <<>> THEN <<>>
    ELSE IF Len(parts) = 1 THEN Head(parts)
    ELSE Head(parts) \o <<"/">> \o JoinSlash(Tail(parts))

\* str(path)
Str(p) ==
    IF p.root = <<>> /\ p.parts = <<>> THEN <<".">>
    ELSE p.root \o JoinSlash(p.parts)

\* path.is_absolute()
IsAbsolute(p) == p.root # <<>>

\* left / right
Join(left, right) ==
    IF IsAbsolute(right) THEN right
    ELSE [root |-> left.root, parts |-> left.parts \o right.parts]

\* path.name
Name(p) == IF p.parts = <<>> THEN <<>> ELSE p.parts[Len(p.parts)]

(***************************************************************************)
(* parse_args: the command line, each option absent (None) or given.       *)
(***************************************************************************)
parse_args(argv) ==
    [project_dir  |-> IF argv.dir = None THEN None ELSE Some(PathOf(argv.dir[1])),
     project_name |-> argv.name,
     spec         |-> IF argv.spec = None THEN DEFAULT_SPEC ELSE argv.spec[1],
     log_file     |-> IF argv.log = None THEN DEFAULT_LOG_FILE ELSE argv.log[1]]

\* Python truthiness of an optional str: None and "" are false.
Truthy(opt) == opt # None /\ opt[1] # <<>>

(***************************************************************************)
(* main, lines 153-163: the project directory before namespacing.          *)
(***************************************************************************)
spec_name_keeps_extension(spec) == Remove(spec, SPEC_TOKEN)

\* args.spec.replace(".txt", "").replace("_spec", "")
spec_name(spec) == Remove(Remove(spec, TXT), SPEC_TOKEN)

ResolveProjectDirNameFirst(a) ==
    IF Truthy(a.project_name) THEN PathOf(a.project_name[1])
    ELSE IF a.project_dir # None THEN a.project_dir[1]
    ELSE PathOf(spec_name(a.spec))

ResolveProjectDir(a) ==
    IF a.project_dir # None THEN a.project_dir[1]
    ELSE IF Truthy(a.project_name) THEN PathOf(a.project_name[1])
    ELSE PathOf(spec_name(a.spec))

(***************************************************************************)
(* main, lines 165-173: placement under generations/.                      *)
(***************************************************************************)
NamespacedNoSlash(p) ==
    IF ~StartsWith(Str(p), GENERATIONS)
    THEN IF IsAbsolute(p) THEN p
         ELSE Join(PathOf(GENERATIONS), p)
    ELSE p

Namespaced(p) ==
    IF ~StartsWith(Str(p), GENERATIONS_SLASH)
    THEN IF IsAbsolute(p) THEN p
         ELSE Join(PathOf(GENERATIONS), p)
    ELSE p

(***************************************************************************)
(* The filesystem: directories, and regular files with their content.      *)
(* A content is a sequence of tokens.                                      *)
(***************************************************************************)
Put(f, k, v) == [x \in DOMAIN f \cup {k} |-> IF x = k THEN v ELSE f[x]]

\* The current directory and the filesystem roots always exist.
DirExists(ds, p) == p.parts = <<>> \/ Str(p) \in ds

\* path.exists() of a regular file
FileExists(fls, p) == Str(p) \in DOMAIN fls

\* path.mkdir(parents=True, exist_ok=True)
MkdirParents(ds, p) ==
    ds \cup {Str([root |-> p.root, parts |-> SubSeq(p.parts, 1, i)]) : i \in 1..Len(p.parts)}

(***************************************************************************)
(* prompts.py                                                              *)
(***************************************************************************)
\* is_dashboard_project
is_dashboard_project(p) ==
    Contains(Lower(Name(p)), DASHBOARD) \/ Contains(Lower(Name(p)), MONITOR)

\* shutil.copy(PROMPTS_DIR / src, dest): FileNotFoundError when the source or
\* the destination's directory is missing, and then nothing is written.
ShutilCopy(tmpl, fls, ds, src, dest) ==
    IF src \notin DOMAIN tmpl \/ ~DirExists(ds, [dest EXCEPT !.parts = SubSeq(@, 1, Len(@) - 1)])
    THEN [ok |-> FALSE, files |-> fls]
    ELSE [ok |-> TRUE, files |-> Put(fls, Str(dest), tmpl[src])]

\* spec_source of copy_spec_to_project
spec_source(p) == IF is_dashboard_project(p) THEN MONITORING_SPEC_TXT ELSE APP_SPEC_TXT

spec_dest(p) == Join(p, PathOf(APP_SPEC_TXT))

context_dest(p) == Join(p, PathOf(AGENT_CONTEXT_MD))

CopyIfAbsentOverwrites(tmpl, fls, ds, src, dest) ==
    ShutilCopy(tmpl, fls, ds, src, dest)

\* if not dest.exists(): shutil.copy(source, dest)
CopyIfAbsent(tmpl, fls, ds, src, dest) ==
    IF ~FileExists(fls, dest) THEN ShutilCopy(tmpl, fls, ds, src, dest)
    ELSE [ok |-> TRUE, files |-> fls]

copy_spec_to_project_defaults_on_missing(tmpl, fls, ds, p) ==
    LET ctx == IF is_dashboard_project(p)
               THEN CopyIfAbsent(tmpl, fls, ds, AGENT_CONTEXT_MD, context_dest(p))
               ELSE [ok |-> TRUE, files |-> fls]
        spec == CopyIfAbsent(tmpl, ctx.files, ds, spec_source(p), spec_dest(p))
    IN  IF ~FileExists(spec.files, spec_dest(p)) /\ DirExists(ds, p)
        THEN [raised |-> FALSE, files |-> Put(spec.files, Str(spec_dest(p)), <<>>)]
        ELSE [raised |-> FALSE, files |-> spec.files]

\* copy_spec_to_project(project_dir): the files afterwards, and whether it raised.
copy_spec_to_project(tmpl, fls, ds, p) ==
    LET ctx == IF is_dashboard_project(p)
               THEN CopyIfAbsent(tmpl, fls, ds, AGENT_CONTEXT_MD, context_dest(p))
               ELSE [ok |-> TRUE, files |-> fls]
    IN  IF ~ctx.ok THEN [raised |-> TRUE, files |-> ctx.files]
        ELSE LET spec == CopyIfAbsent(tmpl, ctx.files, ds, spec_source(p), spec_dest(p))
             IN  [raised |-> ~spec.ok, files |-> spec.files]

\* The PROMPTS_DIR a call of copy_spec_to_project(p) asks the library for, each
\* with the destination it is copied to.
Requested(p) ==
    {[src |-> spec_source(p), dest |-> Str(spec_dest(p))]}
    \cup (IF is_dashboard_project(p)
          THEN {[src |-> AGENT_CONTEXT_MD, dest |-> Str(context_dest(p))]}
          ELSE {})

(***************************************************************************)
(* Output streams.  A sink holds the data written to it and not yet        *)
(* flushed (buf) and the data that has reached the device (out).           *)
(***************************************************************************)
EmptySink == [buf |-> <<>>, out |-> <<>>]

\* sink.write(message)
SinkWrite(sink, m) == [sink EXCEPT !.buf = Append(@, m)]

\* sink.flush()
SinkFlush(sink) == [buf |-> <<>>, out |-> sink.out \o sink.buf]

\* everything ever written to the sink
Received(sink) == sink.out \o sink.buf

\* TeeOutput.flush
TeeOutput_flush(tee) ==
    [terminal |-> SinkFlush(tee.terminal), file |-> SinkFlush(tee.file)]

TeeOutput_write_terminal_only(tee, m) ==
    TeeOutput_flush([terminal |-> SinkWrite(tee.terminal, m), file |-> tee.file])

\* TeeOutput.write
TeeOutput_write(tee, m) ==
    TeeOutput_flush([terminal |-> SinkWrite(tee.terminal, m),
              file     |-> SinkWrite(tee.file, m)])

\* The TeeOutput main installs over stream w: the terminal stream and the log
\* file object, whose device is the file on disk.
TeeOf(io, w) ==
    [terminal |-> io.term[w],
     file     |-> [buf |-> io.log_file[1].buf, out |-> io.files[io.log_file[1].path]]]

\* The streams after the TeeOutput over w became tee.
WithTee(io, w, tee) ==
    [io EXCEPT !.term[w] = tee.terminal,
               !.log_file = Some([path |-> io.log_file[1].path, buf |-> tee.file.buf]),
               !.files[io.log_file[1].path] = tee.file.out]

IO == [term |-> term, log_file |-> log_file, files |-> files, teeLog |-> teeLog]

StreamKind(w) == IF w = "stdout" THEN sys_stdout ELSE sys_stderr

\* sys.<w>.write(m), for sys.<w> the terminal stream itself or a TeeOutput.
StreamWrite(io, kind, w, m) ==
    IF kind = "tee"
    THEN [WithTee(io, w, TeeOutput_write(TeeOf(io, w), m))
             EXCEPT !.teeLog = Append(@, [stream |-> w, data |-> m])]
    ELSE [io EXCEPT !.term[w] = SinkWrite(@, m)]

\* print(...) once per message, to sys.stdout
RECURSIVE PrintLines(_, _, _)
PrintLines(io, kind, msgs) ==
    IF msgs = <<>> THEN io
    ELSE PrintLines(StreamWrite(io, kind, "stdout", Head(msgs)), kind, Tail(msgs))

Streams == {"stdout", "stderr"}

\* The messages main prints.
TOKEN_ERROR == <<"Error: CLAUDE_OAUTH_TOKEN environment variable not set",
                 "Set up your token using: claude setup-token",
                 "Then set it:",
                 "  export CLAUDE_OAUTH_TOKEN='your-token-here'">>
LOGGING_TO == "Logging output to:"
INTERRUPTED == <<"Interrupted by user", "To resume, run the same command again">>
FATAL == "Fatal error:"

(***************************************************************************)
(* main                                                                    *)
(***************************************************************************)
EmptyFiles == [x \in {} |-> <<>>]

NoCall == [called |-> FALSE, dir |-> PathOf(<<>>), raised |-> FALSE,
           library |-> EmptyFiles, before |-> EmptyFiles]

FreshTerm == [w \in Streams |-> EmptySink]

\* Line 143, in a new process: nothing redirected, nothing open.
Launch(argv, e) ==
    /\ pc \in {"idle", "exited"}
    /\ runs < MaxRuns
    /\ pc' = "start"
    /\ env' = e
    /\ args' = parse_args(argv)
    /\ project_dir' = None
    /\ term' = FreshTerm
    /\ log_file' = None
    /\ sys_stdout' = "raw"
    /\ sys_stderr' = "raw"
    /\ teeLog' = <<>>
    /\ outcome' = "none"
    /\ exit' = "none"
    /\ runs' = runs + 1
    /\ nwritten' = 0
    /\ UNCHANGED <<dirs, files, PROMPTS_DIR, lastCall, firstWritten, truncated>>

CheckTokenNoneOnly ==
    /\ pc = "start"
    /\ IF env = None
       THEN /\ term' = PrintLines(IO, sys_stdout, TOKEN_ERROR).term
            /\ pc' = "exited"
            /\ exit' = "returned"
       ELSE /\ pc' = "resolve"
            /\ UNCHANGED <<term, exit>>
    /\ UNCHANGED <<env, args, project_dir, dirs, files, PROMPTS_DIR, lastCall,
                   firstWritten, log_file, sys_stdout, sys_stderr, teeLog,
                   truncated, outcome, runs, nwritten>>

\* Lines 146-151.
CheckToken ==
    /\ pc = "start"
    /\ IF ~Truthy(env)
       THEN /\ term' = PrintLines(IO, sys_stdout, TOKEN_ERROR).term
            /\ pc' = "exited"
            /\ exit' = "returned"
       ELSE /\ pc' = "resolve"
            /\ UNCHANGED <<term, exit>>
    /\ UNCHANGED <<env, args, project_dir, dirs, files, PROMPTS_DIR, lastCall,
                   firstWritten, log_file, sys_stdout, sys_stderr, teeLog,
                   truncated, outcome, runs, nwritten>>

\* Lines 153-163.
DetermineProjectDir ==
    /\ pc = "resolve"
    /\ project_dir' = Some(ResolveProjectDir(args))
    /\ pc' = "namespace"
    /\ UNCHANGED <<env, args, dirs, files, PROMPTS_DIR, lastCall, firstWritten,
                   term, log_file, sys_stdout, sys_stderr, teeLog, truncated,
                   outcome, exit, runs, nwritten>>

\* Lines 165-173.
PlaceInGenerations ==
    /\ pc = "namespace"
    /\ project_dir' = Some(Namespaced(project_dir[1]))
    /\ pc' = "mkdir"
    /\ UNCHANGED <<env, args, dirs, files, PROMPTS_DIR, lastCall, firstWritten,
                   term, log_file, sys_stdout, sys_stderr, teeLog, truncated,
                   outcome, exit, runs, nwritten>>

MakeProjectDirSkipped ==
    /\ pc = "mkdir"
    /\ pc' = "log"
    /\ UNCHANGED <<dirs, env, args, project_dir, files, PROMPTS_DIR, lastCall,
                   firstWritten, term, log_file, sys_stdout, sys_stderr, teeLog,
                   truncated, outcome, exit, runs, nwritten>>

\* Line 176.
MakeProjectDir ==
    /\ pc = "mkdir"
    /\ dirs' = MkdirParents(dirs, project_dir[1])
    /\ pc' = "log"
    /\ UNCHANGED <<env, args, project_dir, files, PROMPTS_DIR, lastCall,
                   firstWritten, term, log_file, sys_stdout, sys_stderr, teeLog,
                   truncated, outcome, exit, runs, nwritten>>

log_path == Str(Join(project_dir[1], PathOf(args.log_file)))

OpenAppend(fls, path) == IF path \in DOMAIN fls THEN fls ELSE Put(fls, path, <<>>)

\* open(path, "w"): the file exists afterwards and is empty.
OpenTruncate(fls, path) == Put(fls, path, <<>>)

\* Lines 179-184.
RedirectOutput ==
    /\ pc = "log"
    /\ IF args.log_file # <<>>
       THEN /\ term' = StreamWrite(IO, sys_stdout, "stdout", LOGGING_TO).term
            /\ truncated' = IF log_path \in DOMAIN files THEN Some(files[log_path]) ELSE None
            /\ files' = OpenTruncate(files, log_path)
            /\ log_file' = Some([path |-> log_path, buf |-> <<>>])
            /\ sys_stdout' = "tee"
            /\ sys_stderr' = "tee"
       ELSE UNCHANGED <<term, truncated, files, log_file, sys_stdout, sys_stderr>>
    /\ pc' = "call"
    /\ UNCHANGED <<env, args, project_dir, dirs, PROMPTS_DIR, lastCall,
                   firstWritten, teeLog, outcome, exit, runs, nwritten>>

\* Lines 188-196: the call into the agent runtime is issued, and main waits.
IssueSessionCall ==
    /\ pc = "call"
    /\ pc' = "session"
    /\ UNCHANGED <<env, args, project_dir, dirs, files, PROMPTS_DIR, lastCall,
                   firstWritten, term, log_file, sys_stdout, sys_stderr, teeLog,
                   truncated, outcome, exit, runs, nwritten>>

SessionMessages == {"progress"}

\* During the call the runtime writes to sys.stdout and sys.stderr.
SessionOutput(w, m) ==
    /\ pc = "session"
    /\ nwritten < MaxSessionWrites
    /\ nwritten' = nwritten + 1
    /\ LET io == StreamWrite(IO, StreamKind(w), w, m)
       IN  /\ term' = io.term
           /\ log_file' = io.log_file
           /\ files' = io.files
           /\ teeLog' = io.teeLog
    /\ UNCHANGED <<pc, env, args, project_dir, dirs, PROMPTS_DIR, lastCall,
                   firstWritten, sys_stdout, sys_stderr, truncated, outcome,
                   exit, runs>>

ArtifactContents == {<<"v1">>, <<"v2">>}

\* During the call the runtime creates and rewrites files of the project; the
\* canonical spec file stands for them.
SessionWritesFile(content) ==
    /\ pc = "session"
    /\ files' = Put(files, Str(spec_dest(project_dir[1])), content)
    /\ UNCHANGED <<pc, env, args, project_dir, dirs, PROMPTS_DIR, lastCall,
                   firstWritten, term, log_file, sys_stdout, sys_stderr, teeLog,
                   truncated, outcome, exit, runs, nwritten>>

\* How the call can settle: it returns, or raises KeyboardInterrupt, an
\* Exception, or a BaseException that is neither.
Outcomes == {"completed", "KeyboardInterrupt", "Exception", "BaseException"}

SettleSwallowsErrors(o) ==
    /\ pc = "session"
    /\ outcome' = o
    /\ LET msgs == IF o = "KeyboardInterrupt" THEN INTERRUPTED
                   ELSE IF o = "Exception" THEN <<FATAL>>
                   ELSE <<>>
           io == PrintLines(IO, sys_stdout, msgs)
       IN  /\ term' = io.term
           /\ log_file' = io.log_file
           /\ files' = io.files
           /\ teeLog' = io.teeLog
    /\ exit' = IF o = "BaseException" THEN "raised" ELSE "returned"
    /\ pc' = "exited"
    /\ UNCHANGED <<env, args, project_dir, dirs, PROMPTS_DIR, lastCall,
                   firstWritten, sys_stdout, sys_stderr, truncated, runs, nwritten>>

\* Lines 187-202: the call settles and main handles it.
Settle(o) ==
    /\ pc = "session"
    /\ outcome' = o
    /\ LET msgs == IF o = "KeyboardInterrupt" THEN INTERRUPTED
                   ELSE IF o = "Exception" THEN <<FATAL>>
                   ELSE <<>>
           io == PrintLines(IO, sys_stdout, msgs)
       IN  /\ term' = io.term
           /\ log_file' = io.log_file
           /\ files' = io.files
           /\ teeLog' = io.teeLog
    /\ exit' = IF o \in {"completed", "KeyboardInterrupt"} THEN "returned" ELSE "raised"
    /\ pc' = "exited"
    /\ UNCHANGED <<env, args, project_dir, dirs, PROMPTS_DIR, lastCall,
                   firstWritten, sys_stdout, sys_stderr, truncated, runs, nwritten>>

(***************************************************************************)
(* The harness, invoked again and again on one filesystem.                 *)
(***************************************************************************)
APP == <<"a", "p", "p">>
GENERATIONS_APP == GENERATIONS_SLASH \o APP

MainArgvs ==
    {[dir |-> d, name |-> n, spec |-> None, log |-> l] :
        d \in {None, Some(GENERATIONS_APP)},
        n \in {None, Some(<<"x">>)},
        l \in {None, Some(<<>>)}}

Envs == {None, Some(<<>>), Some(<<"t">>)}

Init ==
    /\ pc = "idle"
    /\ env = None
    /\ args = parse_args([dir |-> None, name |-> None, spec |-> None, log |-> None])
    /\ project_dir = None
    /\ dirs = {}
    /\ files = EmptyFiles
    /\ PROMPTS_DIR = EmptyFiles
    /\ lastCall = NoCall
    /\ firstWritten = EmptyFiles
    /\ term = FreshTerm
    /\ log_file = None
    /\ sys_stdout = "raw"
    /\ sys_stderr = "raw"
    /\ teeLog = <<>>
    /\ truncated = None
    /\ outcome = "none"
    /\ exit = "none"
    /\ nwritten = 0
    /\ runs = 0

Next ==
    \/ \E argv \in MainArgvs, e \in Envs : Launch(argv, e)
    \/ CheckToken
    \/ DetermineProjectDir
    \/ PlaceInGenerations
    \/ MakeProjectDir
    \/ RedirectOutput
    \/ IssueSessionCall
    \/ \E w \in Streams, m \in SessionMessages : SessionOutput(w, m)
    \/ \E c \in ArtifactContents : SessionWritesFile(c)
    \/ \E o \in Outcomes : Settle(o)

Spec == Init /\ [][Next]_vars

(***************************************************************************)
(* Properties of main, checked under Spec.                                 *)
(***************************************************************************)
ProjectDirExists == DirExists(dirs, project_dir[1])

SpecInPlace == FileExists(files, spec_dest(project_dir[1]))

TeeData == [i \in 1..Len(teeLog) |-> teeLog[i].data]

\* C7: when the session call is cancelled by KeyboardInterrupt, main prints the
\* resumption hint, returns without raising and removes no file or directory;
\* when it raises an Exception, main prints the error and re-raises; nothing
\* but a normal return or an interruption ends main without raising.
C7_SettleOutcome ==
    [][(pc = "session" /\ pc' = "exited") =>
         /\ (outcome' = "KeyboardInterrupt" =>
               /\ exit' = "returned"
               /\ Received(term'["stdout"]) = Received(term["stdout"]) \o INTERRUPTED
               /\ dirs \subseteq dirs'
               /\ \A f \in DOMAIN files : f \in DOMAIN files')
         /\ (outcome' = "Exception" =>
               /\ exit' = "raised"
               /\ Received(term'["stdout"]) = Received(term["stdout"]) \o <<FATAL>>)
         /\ (exit' = "returned" <=> outcome' \in {"completed", "KeyboardInterrupt"})
         /\ (exit' = "raised" <=> outcome' \in {"Exception", "BaseException"})]_vars

C7_Witness ==
    /\ pc = "exited"
    /\ outcome = "KeyboardInterrupt"
    /\ exit = "returned"
    /\ SpecInPlace

\* C8: a run whose credential variable is absent or empty reports the error and
\* returns without raising; it creates no directory and no file, opens no log
\* file, leaves sys.stdout and sys.stderr alone and never issues the session call.
C8_NoTokenNoEffect ==
    /\ [](~Truthy(env) =>
            /\ pc \in {"idle", "start", "exited"}
            /\ project_dir = None
            /\ log_file = None
            /\ sys_stdout = "raw"
            /\ sys_stderr = "raw"
            /\ outcome = "none"
            /\ exit # "raised")
    /\ [][(pc = "start" /\ ~Truthy(env)) =>
            /\ pc' = "exited"
            /\ exit' = "returned"
            /\ dirs' = dirs
            /\ files' = files
            /\ Received(term'["stdout"]) = TOKEN_ERROR]_vars

C8_Witness ==
    /\ pc = "exited"
    /\ env = Some(<<>>)
    /\ exit = "returned"
    /\ dirs = {}
    /\ files = EmptyFiles

\* C9 as claimed: the log file is never opened before the project directory
\* exists, and the session call is never issued before the canonical spec file
\* is in place in the project directory.
C9_Original ==
    /\ [](log_file # None => ProjectDirExists)
    /\ [][(pc = "call" /\ pc' = "session") => SpecInPlace]_vars

\* C9 as amended: resolution, directory creation, writer installation and the
\* session call happen in that order: the log file is open only once the
\* project directory exists, and the call is issued only once the directory
\* exists and, when a log file name is given, both writers are installed.
C9_StrictSequence ==
    /\ (pc \in {"namespace", "mkdir", "log", "call", "session"} => project_dir # None)
    /\ (log_file # None =>
          /\ pc \in {"call", "session", "exited"}
          /\ ProjectDirExists
          /\ sys_stdout = "tee"
          /\ sys_stderr = "tee")
    /\ (sys_stdout = "tee" \/ sys_stderr = "tee" => log_file # None)
    /\ (pc \in {"call", "session"} =>
          /\ ProjectDirExists
          /\ (args.log_file # <<>> => log_file # None))

C9_Witness ==
    /\ pc = "session"
    /\ sys_stdout = "tee"
    /\ ProjectDirExists
    /\ ~SpecInPlace

\* C10: while the writers are installed the log file holds exactly what this
\* invocation wrote through them, whatever an earlier invocation left in it;
\* and no step of main changes or removes any other existing file.
C10_LogOfThisRunOnly ==
    /\ [](sys_stdout = "tee" =>
            files[log_file[1].path] \o log_file[1].buf = TeeData)
    /\ [][(pc # "session" \/ pc' # "session") =>
            \A f \in DOMAIN files :
                (log_file' = None \/ f # log_file'[1].path) =>
                    (f \in DOMAIN files' /\ files'[f] = files[f])]_vars

C10_Witness ==
    /\ pc = "exited"
    /\ sys_stdout = "tee"
    /\ truncated # None
    /\ truncated[1] # <<>>
    /\ teeLog # <<>>
    /\ TeeData # truncated[1]
    /\ SpecInPlace

(***************************************************************************)
(* Project identity resolution on its own: lines 153-173 of main, for a    *)
(* range of command lines.                                                 *)
(***************************************************************************)
RECURSIVE Concats(_, _)
Concats(F, n) ==
    IF n = 0 THEN {<<>>}
    ELSE LET C == Concats(F, n - 1) IN C \cup {c \o f : c \in C, f \in F}

PathFragments == {<<"/">>, <<".">>, GENERATIONS, <<"a">>}
SpecFragments == {<<"a">>, SPEC_TOKEN, TXT, <<"_", "s", "p">>, <<"e", "c">>}

PathStrings == Concats(PathFragments, MaxPathParts)
SpecStrings == Concats(SpecFragments, MaxSpecParts) \cup {DEFAULT_SPEC, MONITORING_SPEC_TXT}

Optional(S) == {None} \cup {Some(x) : x \in S}

FewPaths == {None, Some(<<"/", "a">>)}
FewNames == {None, Some(<<>>), Some(<<"a">>)}
FewSpecs == {None, Some(<<"a">> \o TXT)}

\* Every string in one option, a few in the two others.
ResolverArgvs ==
    {[dir |-> d, name |-> n, spec |-> f, log |-> None] :
        d \in Optional(PathStrings), n \in FewNames, f \in FewSpecs}
    \cup {[dir |-> d, name |-> n, spec |-> f, log |-> None] :
        d \in FewPaths, n \in Optional(PathStrings), f \in FewSpecs}
    \cup {[dir |-> d, name |-> n, spec |-> f, log |-> None] :
        d \in FewPaths, n \in FewNames, f \in Optional(SpecStrings)}

InitResolve ==
    /\ pc = "resolve"
    /\ env = Some(<<"t">>)
    /\ args \in {parse_args(argv) : argv \in ResolverArgvs}
    /\ project_dir = None
    /\ dirs = {}
    /\ files = EmptyFiles
    /\ PROMPTS_DIR = EmptyFiles
    /\ lastCall = NoCall
    /\ firstWritten = EmptyFiles
    /\ term = FreshTerm
    /\ log_file = None
    /\ sys_stdout = "raw"
    /\ sys_stderr = "raw"
    /\ teeLog = <<>>
    /\ truncated = None
    /\ outcome = "none"
    /\ exit = "none"
    /\ nwritten = 0
    /\ runs = 1

NextResolve ==
    \/ DetermineProjectDir
    \/ PlaceInGenerations

SpecResolve == InitResolve /\ [][NextResolve]_vars

NoDirNoName == args.project_dir = None /\ ~Truthy(args.project_name)

\* C1 as claimed: an explicit directory is used verbatim; otherwise an explicit
\* name, whatever it is, is the path; otherwise the path is derived from the
\* spec filename.
C1_Original ==
    pc = "namespace" =>
        project_dir[1] =
            IF args.project_dir # None THEN args.project_dir[1]
            ELSE IF args.project_name # None THEN PathOf(args.project_name[1])
            ELSE PathOf(spec_name(args.spec))

\* C1 as amended: an explicit directory is used verbatim; otherwise an explicit
\* non-empty name is the path; otherwise (no name, or the empty name) the path
\* is derived from the spec filename.
C1_Precedence ==
    pc = "namespace" =>
        project_dir[1] =
            IF args.project_dir # None THEN args.project_dir[1]
            ELSE IF args.project_name # None /\ args.project_name[1] # <<>>
                 THEN PathOf(args.project_name[1])
            ELSE PathOf(spec_name(args.spec))

C1_Witness ==
    /\ pc = "namespace"
    /\ args.project_dir # None
    /\ args.project_name # None
    /\ args.project_name[1] # <<>>
    /\ project_dir[1] = args.project_dir[1]
    /\ project_dir[1] # PathOf(args.project_name[1])

\* A relative path whose first component is the namespace root and that has
\* something below it.
UnderGenerations(p) ==
    /\ p.root = <<>>
    /\ Len(p.parts) >= 2
    /\ p.parts[1] = GENERATIONS

\* C2: generations/ is put in front of the resolved path exactly when the path
\* is relative and not already under generations/; an absolute path and a path
\* already under generations/ are left as they are.
C2_Namespacing ==
    pc = "mkdir" =>
        LET pre == ResolveProjectDir(args)
        IN  project_dir[1] =
                IF pre.root = <<>> /\ ~UnderGenerations(pre)
                THEN [root |-> <<>>, parts |-> <<GENERATIONS>> \o pre.parts]
                ELSE pre

C2_Witness ==
    /\ pc = "mkdir"
    /\ UnderGenerations(ResolveProjectDir(args))
    /\ project_dir[1] = ResolveProjectDir(args)
    /\ Str(project_dir[1]) = GENERATIONS_SLASH \o <<"a">>

\* C3 as claimed: with neither directory nor name, a spec filename without the
\* "_spec" token (looked for once ".txt" is stripped) derives the filename
\* less its ".txt"; and the default invocation (app_spec.txt) resolves to
\* generations/app_spec.
C3_Original ==
    /\ (pc = "namespace" /\ NoDirNoName
           /\ ~Contains(Remove(args.spec, TXT), SPEC_TOKEN) =>
            project_dir[1] = PathOf(Remove(args.spec, TXT)))
    /\ (pc = "mkdir" /\ NoDirNoName /\ args.spec = DEFAULT_SPEC =>
            Str(project_dir[1]) = GENERATIONS_SLASH \o Remove(DEFAULT_SPEC, TXT))

\* C3 as amended: with neither directory nor non-empty name, a spec filename
\* that holds no "_spec" once its ".txt" occurrences are removed derives the
\* filename less its ".txt" occurrences; and the default invocation
\* (app_spec.txt, which does hold "_spec") resolves to generations/app.
C3_DerivedName ==
    /\ (pc = "namespace" /\ NoDirNoName
           /\ ~Contains(Remove(args.spec, TXT), SPEC_TOKEN) =>
            project_dir[1] = PathOf(Remove(args.spec, TXT)))
    /\ (pc = "mkdir" /\ NoDirNoName /\ args.spec = DEFAULT_SPEC =>
            Str(project_dir[1]) = GENERATIONS_APP)

C3_Witness ==
    /\ pc = "mkdir"
    /\ args.project_dir = None
    /\ args.project_name = None
    /\ args.spec = DEFAULT_SPEC
    /\ Str(project_dir[1]) = GENERATIONS_APP

(***************************************************************************)
(* Provisioning on its own: calls of copy_spec_to_project on project       *)
(* directories, between which the template library changes.               *)
(***************************************************************************)
TemplateNames == {APP_SPEC_TXT, MONITORING_SPEC_TXT, AGENT_CONTEXT_MD}

TemplateContents == {<<"v1">>, <<"v2">>}

MONITOR_DIR == GENERATIONS_SLASH \o <<"M", "o", "n", "i", "t", "o", "r">>

ProjectDirs == {PathOf(GENERATIONS_APP), PathOf(MONITOR_DIR)}

Without(f, k) == [x \in DOMAIN f \ {k} |-> f[x]]

\* A template of the library is written or rewritten.
EditTemplate(n, c) ==
    /\ (IF n \in DOMAIN PROMPTS_DIR THEN PROMPTS_DIR[n] # c ELSE TRUE)
    /\ PROMPTS_DIR' = Put(PROMPTS_DIR, n, c)
    /\ UNCHANGED <<pc, env, args, project_dir, dirs, files, lastCall,
                   firstWritten, term, log_file, sys_stdout, sys_stderr, teeLog,
                   truncated, nwritten, outcome, exit, runs>>

\* A template of the library is removed.
RemoveTemplate(n) ==
    /\ n \in DOMAIN PROMPTS_DIR
    /\ PROMPTS_DIR' = Without(PROMPTS_DIR, n)
    /\ UNCHANGED <<pc, env, args, project_dir, dirs, files, lastCall,
                   firstWritten, term, log_file, sys_stdout, sys_stderr, teeLog,
                   truncated, nwritten, outcome, exit, runs>>

\* The caller creates the project directory (line 176 of main).
CreateProjectDir(p) ==
    /\ Str(p) \notin dirs
    /\ dirs' = MkdirParents(dirs, p)
    /\ UNCHANGED <<pc, env, args, project_dir, files, PROMPTS_DIR, lastCall,
                   firstWritten, term, log_file, sys_stdout, sys_stderr, teeLog,
                   truncated, nwritten, outcome, exit, runs>>

\* copy_spec_to_project(p)
Provision(p) ==
    LET r == copy_spec_to_project(PROMPTS_DIR, files, dirs, p)
    IN  /\ files' = r.files
        /\ lastCall' = [called |-> TRUE, dir |-> p, raised |-> r.raised,
                        library |-> PROMPTS_DIR, before |-> files]
        /\ firstWritten' = [f \in DOMAIN r.files |->
                               IF f \in DOMAIN firstWritten THEN firstWritten[f]
                               ELSE r.files[f]]
        /\ UNCHANGED <<pc, env, args, project_dir, dirs, PROMPTS_DIR, term,
                       log_file, sys_stdout, sys_stderr, teeLog, truncated,
                       nwritten, outcome, exit, runs>>

InitProvision ==
    /\ pc = "idle"
    /\ env = None
    /\ args = parse_args([dir |-> None, name |-> None, spec |-> None, log |-> None])
    /\ project_dir = None
    /\ dirs = {}
    /\ files = EmptyFiles
    /\ PROMPTS_DIR = [n \in TemplateNames |-> <<"v1">>]
    /\ lastCall = NoCall
    /\ firstWritten = EmptyFiles
    /\ term = FreshTerm
    /\ log_file = None
    /\ sys_stdout = "raw"
    /\ sys_stderr = "raw"
    /\ teeLog = <<>>
    /\ truncated = None
    /\ outcome = "none"
    /\ exit = "none"
    /\ nwritten = 0
    /\ runs = 0

NextProvision ==
    \/ \E n \in TemplateNames, c \in TemplateContents : EditTemplate(n, c)
    \/ \E n \in TemplateNames : RemoveTemplate(n)
    \/ \E p \in ProjectDirs : CreateProjectDir(p)
    \/ \E p \in ProjectDirs : Provision(p)

SpecProvision == InitProvision /\ [][NextProvision]_vars

\* The files the last call created.
Created == DOMAIN files \ DOMAIN lastCall.before

\* The requests of the last call whose template was not in the library.
MissingRequests ==
    {q \in Requested(lastCall.dir) : q.src \notin DOMAIN lastCall.library}

\* C4: a file that exists when a call of copy_spec_to_project starts is left
\* with its content by that call, so every provisioned file still holds what
\* the call that first materialized it wrote, whatever the library holds now.
C4_NeverOverwrites ==
    /\ \A f \in DOMAIN lastCall.before :
           f \in DOMAIN files /\ files[f] = lastCall.before[f]
    /\ \A f \in DOMAIN files :
           f \in DOMAIN firstWritten /\ files[f] = firstWritten[f]

C4_Witness ==
    /\ lastCall.called
    /\ ~lastCall.raised
    /\ \E q \in Requested(lastCall.dir) :
           /\ q.dest \in DOMAIN lastCall.before
           /\ q.src \in DOMAIN lastCall.library
           /\ lastCall.library[q.src] # files[q.dest]

\* C5 as claimed: every call whose requested template is not in the library
\* fails with not-found and creates no spec file.
C5_Original ==
    (lastCall.called /\ MissingRequests # {}) =>
        /\ lastCall.raised
        /\ Str(spec_dest(lastCall.dir)) \notin Created

\* C5 as amended: every call that requests a template which is not in the
\* library, for a destination that does not exist yet, fails with not-found
\* and creates no spec file; a call whose destinations all exist already
\* copies nothing and completes, whether or not the PROMPTS_DIR are there.
C5_MissingTemplate ==
    /\ (lastCall.called /\ \E q \in MissingRequests : q.dest \notin DOMAIN lastCall.before) =>
           /\ lastCall.raised
           /\ Str(spec_dest(lastCall.dir)) \notin Created
    /\ (lastCall.called /\ \A q \in Requested(lastCall.dir) : q.dest \in DOMAIN lastCall.before) =>
           /\ ~lastCall.raised
           /\ files = lastCall.before

C5_Witness ==
    /\ lastCall.called
    /\ lastCall.raised
    /\ Str(lastCall.dir) \in dirs
    /\ APP_SPEC_TXT \notin DOMAIN lastCall.library
    /\ ~is_dashboard_project(lastCall.dir)
    /\ Str(spec_dest(lastCall.dir)) \notin DOMAIN files

(***************************************************************************)
(* The two TeeOutput writers on their own, as main installs them: one over *)
(* each terminal stream, both over the one log file.                       *)
(***************************************************************************)
TeeMessages == {"a", "b"}

\* sys.<w>.write(m) on the installed TeeOutput
TeeWriteCall(w, m) ==
    /\ sys_stdout = "tee" /\ sys_stderr = "tee"
    /\ Len(teeLog) < MaxWrites
    /\ LET io == StreamWrite(IO, "tee", w, m)
       IN  /\ term' = io.term
           /\ log_file' = io.log_file
           /\ files' = io.files
           /\ teeLog' = io.teeLog
    /\ UNCHANGED <<pc, env, args, project_dir, dirs, PROMPTS_DIR, lastCall,
                   firstWritten, sys_stdout, sys_stderr, truncated, nwritten,
                   outcome, exit, runs>>

\* sys.<w>.flush() on the installed TeeOutput
TeeFlushCall(w) ==
    /\ sys_stdout = "tee" /\ sys_stderr = "tee"
    /\ LET io == WithTee(IO, w, TeeOutput_flush(TeeOf(IO, w)))
       IN  /\ term' = io.term
           /\ log_file' = io.log_file
           /\ files' = io.files
    /\ UNCHANGED <<pc, env, args, project_dir, dirs, PROMPTS_DIR, lastCall,
                   firstWritten, sys_stdout, sys_stderr, teeLog, truncated,
                   nwritten, outcome, exit, runs>>

TeeLogPath == Str(Join(PathOf(GENERATIONS_APP), PathOf(DEFAULT_LOG_FILE)))

\* The state main is in after line 184, for the default command line; the
\* line printed before the redirection may or may not have left the buffer of
\* the terminal stream.
InitTee ==
    /\ pc = "call"
    /\ env = Some(<<"t">>)
    /\ args = parse_args([dir |-> None, name |-> None, spec |-> None, log |-> None])
    /\ project_dir = Some(PathOf(GENERATIONS_APP))
    /\ dirs = MkdirParents({}, PathOf(GENERATIONS_APP))
    /\ files = Put(EmptyFiles, TeeLogPath, <<>>)
    /\ PROMPTS_DIR = EmptyFiles
    /\ lastCall = NoCall
    /\ firstWritten = EmptyFiles
    /\ term \in {[FreshTerm EXCEPT !["stdout"] = SinkWrite(@, LOGGING_TO)],
                 [FreshTerm EXCEPT !["stdout"] = SinkFlush(SinkWrite(@, LOGGING_TO))]}
    /\ log_file = Some([path |-> TeeLogPath, buf |-> <<>>])
    /\ sys_stdout = "tee"
    /\ sys_stderr = "tee"
    /\ teeLog = <<>>
    /\ truncated = None
    /\ outcome = "none"
    /\ exit = "none"
    /\ nwritten = 0
    /\ runs = 1

NextTee ==
    \/ \E w \in Streams, m \in TeeMessages : TeeWriteCall(w, m)
    \/ \E w \in Streams : TeeFlushCall(w)

SpecTee == InitTee /\ [][NextTee]_vars

\* The data of the write calls made on the writer over stream w.
WrittenVia(w) ==
    LET Mine(e) == e.stream = w
        mine == SelectSeq(teeLog, Mine)
    IN  [i \in 1..Len(mine) |-> mine[i].data]

BeforeRedirect(w) == IF w = "stdout" THEN <<LOGGING_TO>> ELSE <<>>

\* C6: what a writer's terminal has received since the writer was installed is
\* what the writer's calls delivered, call for call, to the log file; and once
\* a writer has returned from a write nothing is left unflushed in its terminal
\* or in the log file.
C6_TeeIdentical ==
    /\ \A w \in Streams :
          /\ Received(term[w]) = BeforeRedirect(w) \o WrittenVia(w)
          /\ (WrittenVia(w) # <<>> => term[w].buf = <<>>)
    /\ files[log_file[1].path] \o log_file[1].buf = TeeData
    /\ (teeLog # <<>> => log_file[1].buf = <<>>)

C6_Witness ==
    /\ Len(teeLog) >= 3
    /\ WrittenVia("stdout") # <<>>
    /\ WrittenVia("stderr") # <<>>
    /\ files[log_file[1].path] = TeeData
    /\ term["stdout"].out = <<LOGGING_TO>> \o WrittenVia("stdout")

====
